---- MODULE Spec2Model ----
(***************************************************************************)
(* Model of the MusicVideoButton plugin                                    *)
(* (src/plugins/MusicVideoButton/src/index.ts): the title scorer, the      *)
(* candidate selector, the pairing cache, the negative cache and the       *)
(* single-flight resolver.                                                 *)
(*                                                                         *)
(* JavaScript strings are TLA+ strings (TLC evaluates Len, SubSeq, Head,   *)
(* Tail and \o on them).  Only ASCII is modelled: the separators           *)
(* U+2013, U+2014 and U+2022 of the source's character classes cannot be   *)
(* written in a TLA+ string and are left out of Separators.                *)
(* A Map or Set of the source is a sequence in insertion order.            *)
(* "undefined" is <<>> where a pairing is expected (a pairing p is <<p>>)  *)
(* and UndefinedId where a media id is expected.                           *)
(***************************************************************************)
EXTENDS Integers, Sequences, FiniteSets, TLC

VARIABLES
    songToVideoMappings,  \* Map<number, {trackId, videoId}>, insertion order
    failedSearches,       \* Set<string>, insertion order
    ongoingSearches,      \* Map<string, Promise>: set of [key, promise]
    searches,             \* performSearch invocations that are still referenced
    calls,                \* resolveMapping invocations that are still referenced
    driver,               \* the host's calls so far (n resolves, clears, bulk) and env
    scoring,              \* inputs and result of the scorer (SpecScore only)
    seekPositions,        \* Map<number, number>, insertion order
    player                \* switchToMediaItem calls in flight and the host's log

\* what the resolver does not touch: the host's script and the seek intents
host == <<driver, seekPositions, player>>

vars == <<songToVideoMappings, failedSearches, ongoingSearches, searches,
          calls, driver, scoring, seekPositions, player>>

(***************************************************************************)
(* Bounds of the model.                                                    *)
(***************************************************************************)
MaxCalls == 2
MaxResolves == 3
MaxClears == 1
MaxSwitches == 2
MaxTransitions == 3
NBulk == 1001

(***************************************************************************)
(* Program constants.                                                      *)
(***************************************************************************)
DefaultMaxSize == 1000
DefaultKeepSize == 500
TopCandidates == 3
MaxAfterLen == 8

UndefinedId == -1
Undefined == <<>>

Min(S) == CHOOSE x \in S : \A y \in S : x <= y

(***************************************************************************)
(* String primitives of JavaScript used by the source.                     *)
(***************************************************************************)
CharAt(s, i) == SubSeq(s, i, i)

UpperChars == "ABCDEFGHIJKLMNOPQRSTUVWXYZ"
LowerChars == "abcdefghijklmnopqrstuvwxyz"

LowerOf == [c \in {CharAt(UpperChars, i) : i \in 1..26} |->
              CharAt(LowerChars, CHOOSE i \in 1..26 : CharAt(UpperChars, i) = c)]

LowerChar(c) == IF c \in DOMAIN LowerOf THEN LowerOf[c] ELSE c

RECURSIVE toLowerCase(_)
toLowerCase(s) ==
    IF s = "" THEN "" ELSE LowerChar(Head(s)) \o toLowerCase(Tail(s))

\* the class \s
IsSpace(c) == c \in {" ", "\t", "\n", "\r", "\f"}

RECURSIVE trimStart(_)
trimStart(s) ==
    IF s = "" THEN ""
    ELSE IF IsSpace(Head(s)) THEN trimStart(Tail(s)) ELSE s

RECURSIVE trimEnd(_)
trimEnd(s) ==
    IF s = "" THEN ""
    ELSE IF IsSpace(CharAt(s, Len(s))) THEN trimEnd(SubSeq(s, 1, Len(s) - 1))
    ELSE s

trim(s) == trimEnd(trimStart(s))

\* s.replace(/\s+/g, " ")
RECURSIVE collapseWhitespace(_)
collapseWhitespace(s) ==
    IF s = "" THEN ""
    ELSE IF IsSpace(Head(s)) THEN " " \o collapseWhitespace(trimStart(Tail(s)))
    ELSE Head(s) \o collapseWhitespace(Tail(s))

\* t.indexOf(sub): 0-based, -1 when absent
indexOf(t, sub) ==
    LET hits == {i \in 0..(Len(t) - Len(sub)) : SubSeq(t, i + 1, i + Len(sub)) = sub}
    IN IF hits = {} THEN -1 ELSE Min(hits)

includes(t, sub) == indexOf(t, sub) >= 0

startsWith(t, pre) == Len(pre) <= Len(t) /\ SubSeq(t, 1, Len(pre)) = pre

endsWith(t, suf) ==
    Len(suf) <= Len(t) /\ SubSeq(t, Len(t) - Len(suf) + 1, Len(t)) = suf

\* t.slice(from), 0-based
slice(t, from) == SubSeq(t, from + 1, Len(t))

\* the character class [-:|~*.,'"\s] of the separator regexps
Separators == {"-", ":", "|", "~", "*", ".", ",", "'", "\""}

\* s.replace(/^[-:|~*.,'"\s]+/, "")
RECURSIVE stripLeadingSeparators(_)
stripLeadingSeparators(s) ==
    IF s = "" THEN ""
    ELSE IF Head(s) \in Separators \/ IsSpace(Head(s))
         THEN stripLeadingSeparators(Tail(s))
         ELSE s

\* normalizeTitle without the final trim()
normalizeTitle_noTrim(s) == collapseWhitespace(toLowerCase(s))

(***************************************************************************)
(* normalizeTitle, index.ts:230-232                                        *)
(***************************************************************************)
normalizeTitle(s) == trim(collapseWhitespace(toLowerCase(s)))

rejectKeywords ==
    <<"behind the scenes", "bts", "interview", "making of", "teaser", "trailer",
      "snippet", "shorts", "reaction", "fan", "cover", "dance", "lyrics">>

officialKeywords ==
    <<"official music video", "official video", "music video", "official mv", "mv">>

allowed ==
    <<"official music video", "official video", "music video", "official mv",
      "mv", "video", "hd", "4k", "uhd">>

suffixes ==
    <<"official music video", "music video", "official video", "official mv",
      "mv", "official", "video">>

\* after.match(/^[(\[]\s*([^\]\)]*?)\s*[)\]](.*)$/): <<>> when there is no
\* match, else <<m[1], m[2]>>.  The group stops at the first closing bracket;
\* the greedy \s* before it and the lazy group leave m[1] without outer blanks.
bracketMatch(after) ==
    LET closers == {j \in 2..Len(after) : CharAt(after, j) \in {")", "]"}}
    IN IF closers = {} THEN <<>>
       ELSE <<trim(SubSeq(after, 2, Min(closers) - 1)),
              SubSeq(after, Min(closers) + 1, Len(after))>>

\* rest of a suffix match: the first allowed suffix `after` starts with
firstAllowedPrefix(after) ==
    LET hits == {i \in 1..Len(allowed) : startsWith(after, allowed[i])}
    IN IF hits = {} THEN 0 ELSE Min(hits)

\* hasStrictBoundary without the fallback of its last line: a remainder that
\* is no qualifier is refused whatever its length
hasStrictBoundary_noFallback(title, normalizedOriginal) ==
    LET idx == indexOf(title, normalizedOriginal)
        after0 == trim(slice(title, idx + Len(normalizedOriginal)))
        after == trim(stripLeadingSeparators(after0))
        m == bracketMatch(after)
        suf == firstAllowedPrefix(after)
    IN IF idx < 0 THEN FALSE
       ELSE IF Len(after0) = 0 THEN TRUE
       ELSE IF Len(after) = 0 THEN TRUE
       ELSE IF startsWith(after, "(") \/ startsWith(after, "[")
            THEN IF m = <<>> THEN FALSE
                 ELSE IF ~(\E i \in 1..Len(allowed) : allowed[i] = normalizeTitle(m[1]))
                      THEN FALSE
                 ELSE Len(trim(stripLeadingSeparators(m[2]))) = 0
       ELSE IF suf # 0
            THEN Len(trim(stripLeadingSeparators(slice(after, Len(allowed[suf]))))) = 0
       ELSE FALSE

(***************************************************************************)
(* hasStrictBoundary, index.ts:264-297                                     *)
(***************************************************************************)
hasStrictBoundary(title, normalizedOriginal) ==
    LET idx == indexOf(title, normalizedOriginal)
        after0 == trim(slice(title, idx + Len(normalizedOriginal)))
        after == trim(stripLeadingSeparators(after0))
        m == bracketMatch(after)
        suf == firstAllowedPrefix(after)
    IN IF idx < 0 THEN FALSE
       ELSE IF Len(after0) = 0 THEN TRUE
       ELSE IF Len(after) = 0 THEN TRUE
       ELSE IF startsWith(after, "(") \/ startsWith(after, "[")
            THEN IF m = <<>> THEN FALSE
                 ELSE IF ~(\E i \in 1..Len(allowed) : allowed[i] = normalizeTitle(m[1]))
                      THEN FALSE
                 ELSE Len(trim(stripLeadingSeparators(m[2]))) = 0
       ELSE IF suf # 0
            THEN Len(trim(stripLeadingSeparators(slice(after, Len(allowed[suf]))))) = 0
       ELSE Len(after) <= MaxAfterLen

\* cleaned.replace(/[[(].*?[\])]/g, "")
RECURSIVE removeBracketed(_)
removeBracketed(s) ==
    LET openers == {i \in 1..Len(s) : CharAt(s, i) \in {"[", "("}}
    IN IF openers = {} THEN s
       ELSE LET i == Min(openers)
                closers == {j \in (i + 1)..Len(s) : CharAt(s, j) \in {"]", ")"}}
            IN IF closers = {} THEN s
               ELSE SubSeq(s, 1, i - 1)
                        \o removeBracketed(SubSeq(s, Min(closers) + 1, Len(s)))

\* the loop over suffixes of extractSongName, from suffix number i on
RECURSIVE stripSuffixes(_, _)
stripSuffixes(cleaned, i) ==
    IF i > Len(suffixes) THEN cleaned
    ELSE IF endsWith(cleaned, suffixes[i])
         THEN stripSuffixes(trim(SubSeq(cleaned, 1, Len(cleaned) - Len(suffixes[i]))), i + 1)
         ELSE stripSuffixes(cleaned, i + 1)

(***************************************************************************)
(* extractSongName, index.ts:299-321                                       *)
(***************************************************************************)
extractSongName(title) == trim(removeBracketed(stripSuffixes(title, 1)))

\* scoreTitleMatch with the exact match tested after the qualifier phrases
scoreTitleMatch_exactLate(normalizedOriginal, candidateTitle) ==
    LET t == normalizeTitle(candidateTitle)
    IN IF ~includes(t, normalizedOriginal) THEN 0
       ELSE IF ~hasStrictBoundary(t, normalizedOriginal) THEN 0
       ELSE IF \E i \in 1..Len(rejectKeywords) : includes(t, rejectKeywords[i]) THEN 0
       ELSE IF \E i \in 1..Len(officialKeywords) : includes(t, officialKeywords[i]) THEN 900
       ELSE IF t = normalizedOriginal THEN 1000
       ELSE IF extractSongName(t) = normalizedOriginal THEN 800
       ELSE 700

(***************************************************************************)
(* scoreTitleMatch, index.ts:234-262                                       *)
(***************************************************************************)
scoreTitleMatch(normalizedOriginal, candidateTitle) ==
    LET t == normalizeTitle(candidateTitle)
    IN IF ~includes(t, normalizedOriginal) THEN 0
       ELSE IF ~hasStrictBoundary(t, normalizedOriginal) THEN 0
       ELSE IF \E i \in 1..Len(rejectKeywords) : includes(t, rejectKeywords[i]) THEN 0
       ELSE IF t = normalizedOriginal THEN 1000
       ELSE IF \E i \in 1..Len(officialKeywords) : includes(t, officialKeywords[i]) THEN 900
       ELSE IF extractSongName(t) = normalizedOriginal THEN 800
       ELSE IF startsWith(t, normalizedOriginal \o " ") THEN 700
       ELSE IF startsWith(t, normalizedOriginal) THEN 600
       ELSE IF includes(t, " " \o normalizedOriginal \o " ") THEN 500
       ELSE IF includes(t, normalizedOriginal) THEN 400
       ELSE 0

(***************************************************************************)
(* The inputs of Spec.                                                     *)
(***************************************************************************)
Medias ==
    { [id |-> 1, title |-> "Song", artist |-> "Ab", lazy |-> FALSE],
      [id |-> 2, title |-> "SONG", artist |-> "ab", lazy |-> FALSE],
      [id |-> 3, title |-> "", artist |-> "Ab", lazy |-> FALSE],
      [id |-> 4, title |-> "Fan", artist |-> "", lazy |-> TRUE],
      [id |-> 5, title |-> "", artist |-> "", lazy |-> TRUE] }

TrackItems ==
    <<[id |-> 6, title |-> "Song (Live)"], [id |-> 8, title |-> "Song HD"],
      [id |-> 1, title |-> "song"]>>

VideoItems ==
    <<[id |-> 7, title |-> "Song - Lyrics"], [id |-> 2, title |-> "SONG [Official Video]"]>>

(***************************************************************************)
(* Map and Set of JavaScript: sequences in insertion order.  A Map entry   *)
(* is [key, value]; set() of a present key keeps its place.                *)
(***************************************************************************)
mapHas(cache, k) == \E i \in 1..Len(cache) : cache[i].key = k

\* cache.get(k): <<v>> or Undefined
mapGet(cache, k) ==
    IF mapHas(cache, k)
    THEN <<cache[CHOOSE i \in 1..Len(cache) : cache[i].key = k].value>>
    ELSE Undefined

mapSet(cache, k, v) ==
    IF mapHas(cache, k)
    THEN [i \in 1..Len(cache) |->
             IF cache[i].key = k THEN [key |-> k, value |-> v] ELSE cache[i]]
    ELSE Append(cache, [key |-> k, value |-> v])

mapDelete(cache, k) == SelectSeq(cache, LAMBDA e : e.key # k)

\* a membership test that never finds the element
setHas_never(set, x) == FALSE

setHas(set, x) == \E i \in 1..Len(set) : set[i] = x

setAdd(set, x) == IF setHas(set, x) THEN set ELSE Append(set, x)

\* Array.from(c).slice(-keepSize)
lastEntries(c, keepSize) ==
    IF keepSize = 0 THEN c
    ELSE IF Len(c) <= keepSize THEN c
    ELSE SubSeq(c, Len(c) - keepSize + 1, Len(c))

\* pruneCache keeping the oldest entries: slice(0, keepSize)
pruneCache_oldest(cache, maxSize, keepSize) ==
    IF Len(cache) > maxSize THEN SubSeq(cache, 1, keepSize) ELSE cache

(***************************************************************************)
(* pruneCache, index.ts:15-21                                              *)
(***************************************************************************)
pruneCache(cache, maxSize, keepSize) ==
    IF Len(cache) > maxSize THEN lastEntries(cache, keepSize) ELSE cache

(***************************************************************************)
(* pruneSet, index.ts:23-29                                                *)
(***************************************************************************)
pruneSet(set, maxSize, keepSize) ==
    IF Len(set) > maxSize THEN lastEntries(set, keepSize) ELSE set

(***************************************************************************)
(* findBestMatchingId, index.ts:31-59.  items is the list of the payload,  *)
(* each item [id, title]; exists is the set of ids for which               *)
(* MediaItem.fromId(id, type) fulfils (it rejects for every other id).     *)
(***************************************************************************)
\* TLC evaluates a constant once: the scores of the titles that Spec draws,
\* which a step then looks up; the score of any other pair is computed.
knownScores ==
    {<<p[1], p[2], scoreTitleMatch(p[1], p[2])>> :
        p \in {normalizeTitle(m.title) : m \in Medias}
                \X ({TrackItems[i].title : i \in 1..Len(TrackItems)}
                       \cup {VideoItems[i].title : i \in 1..Len(VideoItems)})}

scoreOf(normalizedOriginal, candidateTitle) ==
    LET known == {r \in knownScores : r[1] = normalizedOriginal /\ r[2] = candidateTitle}
    IN IF known # {} THEN (CHOOSE r \in known : TRUE)[3]
       ELSE scoreTitleMatch(normalizedOriginal, candidateTitle)

\* items.map(item => ({id, score}))
scoreItems(items, normalizedOriginal) ==
    [i \in 1..Len(items) |->
        [id |-> items[i].id, score |-> scoreOf(normalizedOriginal, items[i].title)]]

\* the candidates left in the order of the payload: no sort
sortByScore_none(cs) == cs

\* .sort((a, b) => b.score - a.score): stable, descending
RECURSIVE sortByScore(_)
sortByScore(cs) ==
    IF cs = <<>> THEN <<>>
    ELSE LET front == sortByScore(SubSeq(cs, 1, Len(cs) - 1))
             c == cs[Len(cs)]
         IN SelectSeq(front, LAMBDA e : e.score >= c.score)
                \o <<c>> \o SelectSeq(front, LAMBDA e : e.score < c.score)

\* the loop over candidates.slice(0, 3) without the await of MediaItem.fromId:
\* the first with score > 0
firstScoredUnchecked(candidates, exists) ==
    LET top == SubSeq(candidates, 1, IF Len(candidates) < TopCandidates
                                     THEN Len(candidates) ELSE TopCandidates)
        hits == {i \in 1..Len(top) : top[i].score > 0}
    IN IF hits = {} THEN UndefinedId ELSE top[Min(hits)].id

\* the loop over candidates.slice(0, 3): the first with score > 0 whose
\* MediaItem.fromId does not throw
firstScoredAccessible(candidates, exists) ==
    LET top == SubSeq(candidates, 1, IF Len(candidates) < TopCandidates
                                     THEN Len(candidates) ELSE TopCandidates)
        hits == {i \in 1..Len(top) : top[i].score > 0 /\ top[i].id \in exists}
    IN IF hits = {} THEN UndefinedId ELSE top[Min(hits)].id

\* the loop over items of the unscored path
firstAccessible(items, exists) ==
    LET hits == {i \in 1..Len(items) : items[i].id \in exists}
    IN IF hits = {} THEN UndefinedId ELSE items[Min(hits)].id

findBestMatchingId(items, originalTitle, exists) ==
    LET normalizedOriginal == IF originalTitle # "" THEN normalizeTitle(originalTitle) ELSE ""
    IN IF Len(items) = 0 THEN UndefinedId
       ELSE IF normalizedOriginal # ""
            THEN firstScoredAccessible(sortByScore(scoreItems(items, normalizedOriginal)), exists)
       ELSE firstAccessible(items, exists)

\* the ids for which findBestMatchingId awaits MediaItem.fromId, in order: the
\* loop stops at the first id that fulfils
fromIdCalls(items, originalTitle, exists) ==
    LET normalizedOriginal == IF originalTitle # "" THEN normalizeTitle(originalTitle) ELSE ""
        candidates == sortByScore(scoreItems(items, normalizedOriginal))
        top == SubSeq(candidates, 1, IF Len(candidates) < TopCandidates
                                     THEN Len(candidates) ELSE TopCandidates)
        tried == IF Len(items) = 0 THEN <<>>
                 ELSE IF normalizedOriginal # ""
                      THEN [i \in 1..Len(SelectSeq(top, LAMBDA e : e.score > 0)) |->
                               SelectSeq(top, LAMBDA e : e.score > 0)[i].id]
                 ELSE [i \in 1..Len(items) |-> items[i].id]
        hits == {i \in 1..Len(tried) : tried[i] \in exists}
    IN IF hits = {} THEN tried ELSE SubSeq(tried, 1, Min(hits))

\* the truthiness test of `trackId && videoId`: undefined and 0 are falsy
truthyId(id) == id # UndefinedId /\ id # 0

\* a test of the title that lets the empty title through
titleMissing_never(title) == FALSE

\* `!title` in resolveMapping, index.ts:147
titleMissing(title) == title = ""

\* searchKey of findSongVideoPair, index.ts:86
searchKeyOf(title, artist) == toLowerCase(artist) \o " - " \o toLowerCase(title)

\* performSearch, index.ts:110-113: a response that is not ok
notOkFailure(failed, searchKey) == setAdd(failed, searchKey)

\* performSearch, index.ts:129-131: no trackId or no videoId
noMatchFailure(failed, searchKey) ==
    pruneSet(setAdd(failed, searchKey), DefaultMaxSize, DefaultKeepSize)

\* performSearch, index.ts:132-136: the catch
catchFailure(failed, searchKey) ==
    pruneSet(setAdd(failed, searchKey), DefaultMaxSize, DefaultKeepSize)

\* the mapping stored under its trackId and under the id next to its videoId
storeMapping_shifted(cache, trackId, videoId) ==
    LET mapping == [trackId |-> trackId, videoId |-> videoId]
    IN pruneCache(mapSet(mapSet(cache, trackId, mapping), videoId + 1, mapping),
                  DefaultMaxSize, DefaultKeepSize)

\* performSearch, index.ts:121-127: the mapping stored under both ids
storeMapping(cache, trackId, videoId) ==
    LET mapping == [trackId |-> trackId, videoId |-> videoId]
    IN pruneCache(mapSet(mapSet(cache, trackId, mapping), videoId, mapping),
                  DefaultMaxSize, DefaultKeepSize)

(***************************************************************************)
(* State of the resolver.                                                  *)
(*                                                                         *)
(* searches[s]: one invocation of performSearch, named by the promise it   *)
(* returned.  pc is "transport" while getAuthHeaders, the two fetches and  *)
(* the two json() calls are awaited, "selecting" while the two             *)
(* findBestMatchingId calls are awaited, "settled" once the promise is     *)
(* fulfilled with value.  finalized: the .finally callback of              *)
(* findSongVideoPair has run.  The other fields record what happened to    *)
(* the invocation: cleared, clearCaches ran while it was pending;          *)
(* unverified, the ids findBestMatchingId returned for which no            *)
(* MediaItem.fromId fulfilled; recorded, the key was in failedSearches     *)
(* when performSearch returned undefined; answers, the values returned so  *)
(* far to the callers that called findSongVideoPair for its key while it   *)
(* was pending and not cleared (the issuing caller among them).            *)
(*                                                                         *)
(* calls[c]: one invocation of resolveMapping.  pc is "title" while        *)
(* media.title() is awaited, "await" while the promise of                  *)
(* findSongVideoPair is awaited, "returned" once the caller has its value. *)
(* awaits is the search whose promise the call was given (0: none), fresh  *)
(* tells that this call issued it, saw is the set of searches of the same  *)
(* key that were pending, and not cleared, when findSongVideoPair ran.     *)
(***************************************************************************)
FreeIds(f) == {i \in 1..MaxCalls : i \notin DOMAIN f}

Put(f, i, v) == [x \in DOMAIN f \cup {i} |-> IF x = i THEN v ELSE f[x]]

Remove(f, D) == [x \in DOMAIN f \ D |-> f[x]]

Pending(s) == searches[s].pc # "settled"

\* the searches of key k that are pending and were issued after the last clearCaches
PendingFor(k) ==
    {s \in DOMAIN searches : searches[s].searchKey = k /\ Pending(s) /\ ~searches[s].cleared}

\* a caller that called during the flight of the searches of S got value v
Answered(srch, S, v) ==
    [s \in DOMAIN srch |->
        IF s \in S THEN [srch[s] EXCEPT !.answers = @ \cup {v}] ELSE srch[s]]

\* a returned caller is done with its value before anything else happens
NoneReturned == \A c \in DOMAIN calls : calls[c].pc # "returned"

Init ==
    /\ songToVideoMappings = <<>>
    /\ failedSearches = <<>>
    /\ ongoingSearches = <<>>
    /\ searches = <<>>
    /\ calls = <<>>
    /\ seekPositions = <<>>
    /\ player = [switches |-> <<>>, n |-> 0, log |-> <<>>]
    /\ driver = [env |-> "free", n |-> 0, clears |-> 0, bulk |-> 0]
    /\ scoring = [ref |-> "", cand |-> "", score |-> Undefined]

(***************************************************************************)
(* findSongVideoPair, index.ts:85-96, called by call c.                    *)
(***************************************************************************)
FindSongVideoPair(c, media) ==
    LET searchKey == searchKeyOf(media.title, media.artist)
        existing == mapGet(ongoingSearches, searchKey)
        s == Min(FreeIds(searches))
        call == [media |-> media, pc |-> "await", key |-> searchKey, awaits |-> 0,
                 fresh |-> FALSE, saw |-> PendingFor(searchKey), value |-> Undefined]
    IN IF setHas(failedSearches, searchKey)
       THEN /\ calls' = Put(calls, c, [call EXCEPT !.pc = "returned"])
            /\ searches' = Answered(searches, PendingFor(searchKey), Undefined)
            /\ UNCHANGED ongoingSearches
       ELSE IF existing # Undefined
       THEN /\ calls' = Put(calls, c, [call EXCEPT !.awaits = existing[1]])
            /\ UNCHANGED <<searches, ongoingSearches>>
       ELSE /\ searches' = Put(searches, s,
                  [searchKey |-> searchKey, title |-> media.title, artist |-> media.artist,
                   pc |-> "transport", trackItems |-> <<>>, videoItems |-> <<>>,
                   value |-> Undefined, finalized |-> FALSE, cleared |-> FALSE,
                   unverified |-> {}, recorded |-> FALSE, answers |-> {}])
            /\ ongoingSearches' = mapSet(ongoingSearches, searchKey, s)
            /\ calls' = Put(calls, c, [call EXCEPT !.awaits = s, !.fresh = TRUE])

\* index.ts:147-151: the rest of resolveMapping once the title is known, or
\* once media.title() or media.artist() has thrown
AfterTitle(c, media, thrown) ==
    IF thrown \/ titleMissing(media.title)
    THEN /\ calls' = Put(calls, c,
               [media |-> media, pc |-> "returned", key |-> "", awaits |-> 0,
                fresh |-> FALSE, saw |-> {}, value |-> Undefined])
         /\ UNCHANGED <<searches, ongoingSearches>>
    ELSE FindSongVideoPair(c, media)

(***************************************************************************)
(* resolveMapping, index.ts:139-152.  A media item with lazy = TRUE has no *)
(* tidalItem: its title is awaited (media.title()).                        *)
(***************************************************************************)
ResolveMapping(media) ==
    /\ NoneReturned
    /\ FreeIds(calls) # {}
    /\ LET c == Min(FreeIds(calls))
           cached == mapGet(songToVideoMappings, media.id)
       IN IF cached # Undefined
          THEN /\ calls' = Put(calls, c,
                     [media |-> media, pc |-> "returned", key |-> "", awaits |-> 0,
                      fresh |-> FALSE, saw |-> {}, value |-> cached])
               /\ UNCHANGED <<searches, ongoingSearches>>
          ELSE IF media.lazy
          THEN /\ calls' = Put(calls, c,
                     [media |-> media, pc |-> "title", key |-> "", awaits |-> 0,
                      fresh |-> FALSE, saw |-> {}, value |-> Undefined])
               /\ UNCHANGED <<searches, ongoingSearches>>
          ELSE AfterTitle(c, media, FALSE)
    /\ UNCHANGED <<songToVideoMappings, failedSearches, scoring>>

\* media.title() of call c has settled: fulfilled, or rejected (thrown)
TitleResolved(c, thrown) ==
    /\ NoneReturned
    /\ c \in DOMAIN calls
    /\ calls[c].pc = "title"
    /\ AfterTitle(c, calls[c].media, thrown)
    /\ UNCHANGED <<songToVideoMappings, failedSearches, scoring>>

\* performSearch returns v: its promise is fulfilled and its locals are gone
Settle(srch, s, v, failed) ==
    [srch EXCEPT ![s].pc = "settled", ![s].value = v, ![s].title = "", ![s].artist = "",
                 ![s].trackItems = <<>>, ![s].videoItems = <<>>,
                 ![s].recorded = (v = Undefined /\ setHas(failed, srch[s].searchKey))]

(***************************************************************************)
(* performSearch, index.ts:98-115 and 132-136: the transport answers.      *)
(* resp.kind is "throw" (getAuthHeaders, a fetch or json() rejects: the    *)
(* catch) or "response" (both fetches fulfil, with trackOk and videoOk,    *)
(* and both json() calls fulfil with the payloads' item lists).            *)
(***************************************************************************)
TransportResponse(s, resp) ==
    /\ NoneReturned
    /\ s \in DOMAIN searches
    /\ searches[s].pc = "transport"
    /\ IF resp.kind = "throw"
       THEN /\ failedSearches' = catchFailure(failedSearches, searches[s].searchKey)
            /\ searches' = Settle(searches, s, Undefined, failedSearches')
       ELSE IF ~resp.trackOk \/ ~resp.videoOk
       THEN /\ failedSearches' = notOkFailure(failedSearches, searches[s].searchKey)
            /\ searches' = Settle(searches, s, Undefined, failedSearches')
       ELSE /\ searches' = [searches EXCEPT ![s].pc = "selecting",
                                            ![s].trackItems = resp.trackItems,
                                            ![s].videoItems = resp.videoItems]
            /\ UNCHANGED failedSearches
    /\ UNCHANGED <<songToVideoMappings, ongoingSearches, calls, scoring>>

(***************************************************************************)
(* performSearch, index.ts:116-131: both findBestMatchingId calls have     *)
(* settled; existsTrack and existsVideo are the ids whose                  *)
(* MediaItem.fromId fulfilled.                                             *)
(***************************************************************************)
SelectionDone(s, existsTrack, existsVideo) ==
    /\ NoneReturned
    /\ s \in DOMAIN searches
    /\ searches[s].pc = "selecting"
    /\ LET trackId == findBestMatchingId(searches[s].trackItems, searches[s].title, existsTrack)
           videoId == findBestMatchingId(searches[s].videoItems, searches[s].title, existsVideo)
           mapping == [trackId |-> trackId, videoId |-> videoId]
           checked == [searches EXCEPT ![s].unverified =
                          ({trackId} \ (existsTrack \cup {UndefinedId}))
                              \cup ({videoId} \ (existsVideo \cup {UndefinedId}))]
       IN IF truthyId(trackId) /\ truthyId(videoId)
          THEN /\ songToVideoMappings' = storeMapping(songToVideoMappings, trackId, videoId)
               /\ searches' = Settle(checked, s, <<mapping>>, failedSearches)
               /\ UNCHANGED failedSearches
          ELSE /\ failedSearches' = noMatchFailure(failedSearches, searches[s].searchKey)
               /\ searches' = Settle(checked, s, Undefined, failedSearches')
               /\ UNCHANGED songToVideoMappings
    /\ UNCHANGED <<ongoingSearches, calls, scoring>>

\* a .finally callback that never runs: the promise it returns stays pending
Finally_never(s) == FALSE

(***************************************************************************)
(* The .finally callback of findSongVideoPair, index.ts:95.                *)
(***************************************************************************)
Finally(s) ==
    /\ NoneReturned
    /\ s \in DOMAIN searches
    /\ searches[s].pc = "settled"
    /\ ~searches[s].finalized
    /\ ongoingSearches' = mapDelete(ongoingSearches, searches[s].searchKey)
    /\ searches' = [searches EXCEPT ![s].finalized = TRUE]
    /\ UNCHANGED <<songToVideoMappings, failedSearches, calls, scoring>>

\* The promise call c awaits has settled: the caller gets its value.  The
\* issuing call holds searchPromise.finally(...), a joining call searchPromise.
Return(c) ==
    /\ NoneReturned
    /\ c \in DOMAIN calls
    /\ calls[c].pc = "await"
    /\ LET s == calls[c].awaits
           v == searches[s].value
       IN /\ searches[s].pc = "settled"
          /\ calls[c].fresh => searches[s].finalized
          /\ calls' = [calls EXCEPT ![c].pc = "returned", ![c].value = v]
          /\ searches' = Answered(searches,
                                  calls[c].saw \cup (IF calls[c].fresh THEN {s} ELSE {}), v)
    /\ UNCHANGED <<songToVideoMappings, failedSearches, ongoingSearches, scoring>>

\* The caller of call c is done with the value; a search no call refers to
\* any more is dropped with it.
Done(c) ==
    /\ c \in DOMAIN calls
    /\ calls[c].pc = "returned"
    /\ calls' = Remove(calls, {c})
    /\ searches' = Remove(searches,
          {s \in DOMAIN searches :
              /\ searches[s].finalized
              /\ \A d \in DOMAIN calls \ {c} : calls[d].awaits # s /\ s \notin calls[d].saw})
    /\ UNCHANGED <<songToVideoMappings, failedSearches, ongoingSearches, scoring>>

(***************************************************************************)
(* clearCaches, index.ts:61-65                                             *)
(***************************************************************************)
ClearCaches ==
    /\ NoneReturned
    /\ songToVideoMappings' = <<>>
    /\ failedSearches' = <<>>
    /\ ongoingSearches' = <<>>
    /\ searches' = [s \in DOMAIN searches |->
                      IF Pending(s) THEN [searches[s] EXCEPT !.cleared = TRUE]
                      ELSE searches[s]]
    /\ UNCHANGED <<calls, scoring>>

Responses ==
    {[kind |-> "throw", trackOk |-> FALSE, videoOk |-> FALSE,
      trackItems |-> <<>>, videoItems |-> <<>>]}
    \cup [kind : {"response"}, trackOk : {FALSE}, videoOk : BOOLEAN,
          trackItems : {<<>>}, videoItems : {<<>>}]
    \cup [kind : {"response"}, trackOk : {TRUE}, videoOk : {FALSE},
          trackItems : {<<>>}, videoItems : {<<>>}]
    \cup [kind : {"response"}, trackOk : {TRUE}, videoOk : {TRUE},
          trackItems : {<<>>, TrackItems}, videoItems : {VideoItems}]

ItemIdsOf(items) == {items[i].id : i \in 1..Len(items)}

Next ==
    \/ \E media \in Medias :
          /\ driver.n < MaxResolves
          /\ ResolveMapping(media)
          /\ driver' = [driver EXCEPT !.n = @ + 1]
          /\ UNCHANGED <<seekPositions, player>>
    \/ \E c \in 1..MaxCalls, thrown \in BOOLEAN : TitleResolved(c, thrown) /\ UNCHANGED host
    \/ \E s \in 1..MaxCalls, resp \in Responses : TransportResponse(s, resp) /\ UNCHANGED host
    \/ \E s \in DOMAIN searches :
          \E et \in SUBSET ItemIdsOf(searches[s].trackItems),
             ev \in SUBSET ItemIdsOf(searches[s].videoItems) :
                SelectionDone(s, et, ev) /\ UNCHANGED host
    \/ \E s \in 1..MaxCalls : Finally(s) /\ UNCHANGED host
    \/ \E c \in 1..MaxCalls : Return(c) /\ UNCHANGED host
    \/ \E c \in 1..MaxCalls : Done(c) /\ UNCHANGED host
    \/ /\ driver.clears < MaxClears
       /\ <<songToVideoMappings, failedSearches, ongoingSearches>> # <<<<>>, <<>>, <<>>>>
       /\ ClearCaches
       /\ driver' = [driver EXCEPT !.clears = @ + 1]
       /\ UNCHANGED <<seekPositions, player>>

Spec == Init /\ [][Next]_vars

(***************************************************************************)
(* C1: two calls of findSongVideoPair for one key, the second made while   *)
(* the search of the first is pending and with no clearCaches in between,  *)
(* issue one performSearch and receive the same value.  A call that found  *)
(* such a search pending (saw) awaits one of them and issues none; the     *)
(* callers of one search (answers) were all given one value.               *)
(***************************************************************************)
C1_SingleFlightJoin ==
    /\ \A c \in DOMAIN calls :
          (calls[c].saw # {} /\ calls[c].pc = "await")
              => (~calls[c].fresh /\ calls[c].awaits \in calls[c].saw)
    /\ \A s \in DOMAIN searches : Cardinality(searches[s].answers) <= 1

(***************************************************************************)
(* C2: at every instant, at most one performSearch of a key is             *)
(* outstanding.                                                            *)
(***************************************************************************)
C2_OneOutstandingSearch ==
    \A s1, s2 \in DOMAIN searches :
        (Pending(s1) /\ Pending(s2) /\ searches[s1].searchKey = searches[s2].searchKey)
            => s1 = s2

\* call c gets past the title in this step: resolveMapping reaches line 147
ReachesTitleTest(c) ==
    /\ c \in DOMAIN calls'
    /\ calls'[c].pc # "title"
    /\ \/ c \notin DOMAIN calls /\ ~mapHas(songToVideoMappings, calls'[c].media.id)
       \/ c \in DOMAIN calls /\ calls[c].pc = "title"

(***************************************************************************)
(* C6: resolveMapping on a media item whose id is not in                   *)
(* songToVideoMappings and whose title is empty returns undefined, issues  *)
(* no search and leaves songToVideoMappings, failedSearches and            *)
(* ongoingSearches unchanged.                                              *)
(***************************************************************************)
C6_MalformedInput ==
    [][\A c \in 1..MaxCalls :
          (ReachesTitleTest(c) /\ calls'[c].media.title = "")
              => /\ calls'[c].pc = "returned"
                 /\ calls'[c].value = Undefined
                 /\ calls'[c].awaits = 0
                 /\ searches' = searches
                 /\ UNCHANGED <<songToVideoMappings, failedSearches, ongoingSearches>>]_vars

C6_Witness ==
    \E c \in DOMAIN calls :
        /\ calls[c].pc = "returned"
        /\ calls[c].media.title = ""
        /\ calls[c].media.lazy
        /\ ~mapHas(songToVideoMappings, calls[c].media.id)
        /\ failedSearches # <<>>
        /\ ongoingSearches # <<>>

(***************************************************************************)
(* C8: every id findBestMatchingId returns is an id for which              *)
(* MediaItem.fromId fulfilled during that resolution (a rejection counts   *)
(* as not existing), so no search holds an unverified id, and the trackId  *)
(* and videoId of every mapping stored or returned are such ids.           *)
(***************************************************************************)
C8_NoUnverifiedResult ==
    \A s \in DOMAIN searches : searches[s].unverified = {}

\* a caller is given the mapping of the second-best track, the best one
\* (id 1, "song") having failed MediaItem.fromId
C8_Witness ==
    \E c \in DOMAIN calls :
        /\ calls[c].pc = "returned"
        /\ calls[c].value = <<[trackId |-> 8, videoId |-> 2]>>
        /\ mapHas(songToVideoMappings, 8)

(***************************************************************************)
(* SpecScore: the scorer on its own.  A reference title and a candidate    *)
(* title are drawn; ScoreCandidate scores the candidate as the map of      *)
(* findBestMatchingId does (index.ts:34-38): against the normalized        *)
(* reference, when that is not empty.                                      *)
(***************************************************************************)
RefTitles ==
    { "Hello", "Circles", "Dance Monkey", "Fan", "Stay", "Blinding Lights", "Song",
      "  So   NG ", "MV", "Cover Me", "a", " " }

CandTitles ==
    RefTitles \cup
    { "Hello World", "Hello Worldwide", "hello", " CIRCLES ", "dance  monkey", "fan",
      "Stay - Behind The Scenes", "Blinding Lights (Official Music Video)",
      "Song (Live)", "Song (Official Video)", "Song HD", "so ng", "mv", "cover  me",
      "A", "My Song [4k]", "Song - video ..", "" }

InitScore ==
    /\ songToVideoMappings = <<>>
    /\ failedSearches = <<>>
    /\ ongoingSearches = <<>>
    /\ searches = <<>>
    /\ calls = <<>>
    /\ seekPositions = <<>>
    /\ player = [switches |-> <<>>, n |-> 0, log |-> <<>>]
    /\ driver = [env |-> "score", n |-> 0, clears |-> 0, bulk |-> 0]
    /\ scoring \in [ref : RefTitles, cand : CandTitles, score : {Undefined}]

ScoreCandidate ==
    /\ scoring.score = Undefined
    /\ normalizeTitle(scoring.ref) # ""
    /\ scoring' = [scoring EXCEPT
                      !.score = <<scoreTitleMatch(normalizeTitle(scoring.ref), scoring.cand)>>]
    /\ UNCHANGED <<songToVideoMappings, failedSearches, ongoingSearches, searches,
                   calls, host>>

NextScore == ScoreCandidate

SpecScore == InitScore /\ [][NextScore]_vars

Scored == scoring.score # Undefined

\* some reject keyword occurs in t
hasRejectKeyword(t) == \E i \in 1..Len(rejectKeywords) : includes(t, rejectKeywords[i])

(***************************************************************************)
(* C9 (as stated): for reference "Hello" and candidate "Hello World" the   *)
(* score is 0.                                                             *)
(***************************************************************************)
C9_Original ==
    (Scored /\ scoring.ref = "Hello" /\ scoring.cand = "Hello World") => scoring.score = <<0>>

(***************************************************************************)
(* C9 (amended): for reference "Hello" and candidate "Hello World" the     *)
(* score is 700: the remainder "world" has 5 characters, which the         *)
(* fallback of the boundary check (at most 8) accepts.  The remainder      *)
(* "worldwide" (9 characters) is rejected: "Hello Worldwide" scores 0.     *)
(***************************************************************************)
C9_HelloWorld ==
    /\ (Scored /\ scoring.ref = "Hello" /\ scoring.cand = "Hello World")
           => scoring.score = <<700>>
    /\ (Scored /\ scoring.ref = "Hello" /\ scoring.cand = "Hello Worldwide")
           => scoring.score = <<0>>

C9_Witness == Scored /\ scoring.ref = "Hello" /\ scoring.cand = "Hello World"

(***************************************************************************)
(* C10 (as stated): for every non-empty normalized reference title, a      *)
(* candidate whose normalized title equals the reference scores 1000.      *)
(***************************************************************************)
C10_Original ==
    (Scored /\ normalizeTitle(scoring.cand) = normalizeTitle(scoring.ref))
        => scoring.score = <<1000>>

(***************************************************************************)
(* C10 (amended): for every non-empty normalized reference title that      *)
(* contains no reject keyword, a candidate whose normalized title equals   *)
(* the reference scores 1000; when the reference contains a reject         *)
(* keyword ("fan", "dance monkey", "cover me") the same candidate scores   *)
(* 0, the reject keywords being tested before the exact match.             *)
(***************************************************************************)
C10_ExactMatch ==
    (Scored /\ normalizeTitle(scoring.cand) = normalizeTitle(scoring.ref))
        => scoring.score = <<IF hasRejectKeyword(normalizeTitle(scoring.ref)) THEN 0 ELSE 1000>>

C10_Witness ==
    Scored /\ scoring.ref = "Circles" /\ scoring.cand = " CIRCLES " /\ scoring.score = <<1000>>

(***************************************************************************)
(* SpecBulk: the caches at their real sizes.  The host resolves the one    *)
(* media item KMedia step by step, as in Spec, before and after a bulk of  *)
(* NBulk resolutions of other media items, the n-th titled Dec(n).  A      *)
(* resolution of the bulk runs from the call of resolveMapping to the      *)
(* .finally callback with nothing else scheduled in between, and they all  *)
(* end the way driver.env tells: the transport throws, a response is not   *)
(* ok, no candidate is found, a mapping of two fresh ids is stored, or a   *)
(* mapping of one and the same track with a fresh video is stored.         *)
(* The bulk begins while whatever is in flight waits for the transport.    *)
(***************************************************************************)
KMedia == [id |-> 1, title |-> "Song", artist |-> "Ab", lazy |-> FALSE]

KKey == searchKeyOf(KMedia.title, KMedia.artist)

BulkKinds == {"throw", "notok", "nomatch", "pair", "retrack"}

\* String(n)
RECURSIVE Dec(_)
Dec(n) ==
    IF n < 10 THEN CharAt("0123456789", n + 1)
    ELSE Dec(n \div 10) \o CharAt("0123456789", (n % 10) + 1)

BulkTrackId(n) == 10 + 2 * n

BulkVideoId(n) == 11 + 2 * n

BulkMedia(n) == [id |-> BulkTrackId(n), title |-> Dec(n), artist |-> "", lazy |-> FALSE]

BulkResponse(kind, n) ==
    [kind |-> IF kind = "throw" THEN "throw" ELSE "response",
     trackOk |-> kind # "notok", videoOk |-> TRUE,
     trackItems |-> IF kind = "pair" THEN <<[id |-> BulkTrackId(n), title |-> Dec(n)]>>
                    ELSE IF kind = "retrack"
                         THEN <<[id |-> BulkTrackId(1), title |-> Dec(n)]>>
                    ELSE <<>>,
     videoItems |-> IF kind \in {"pair", "nomatch", "retrack"}
                    THEN <<[id |-> BulkVideoId(n), title |-> Dec(n)]>> ELSE <<>>]

(***************************************************************************)
(* resolveMapping, index.ts:139-152, with findSongVideoPair (85-96) and    *)
(* performSearch (98-137), run to completion for a media item that is in   *)
(* no cache and has no search in flight: the search is issued, answered by *)
(* resp, and its registry entry is set and deleted again.                  *)
(***************************************************************************)
ResolveAlone(media, resp, existsTrack, existsVideo) ==
    LET searchKey == searchKeyOf(media.title, media.artist)
        trackId == findBestMatchingId(resp.trackItems, media.title, existsTrack)
        videoId == findBestMatchingId(resp.videoItems, media.title, existsVideo)
    IN /\ ~mapHas(songToVideoMappings, media.id)
       /\ ~titleMissing(media.title)
       /\ ~setHas(failedSearches, searchKey)
       /\ ~mapHas(ongoingSearches, searchKey)
       /\ IF resp.kind = "throw"
          THEN /\ failedSearches' = catchFailure(failedSearches, searchKey)
               /\ UNCHANGED songToVideoMappings
          ELSE IF ~resp.trackOk \/ ~resp.videoOk
          THEN /\ failedSearches' = notOkFailure(failedSearches, searchKey)
               /\ UNCHANGED songToVideoMappings
          ELSE IF truthyId(trackId) /\ truthyId(videoId)
          THEN /\ songToVideoMappings' = storeMapping(songToVideoMappings, trackId, videoId)
               /\ UNCHANGED failedSearches
          ELSE /\ failedSearches' = noMatchFailure(failedSearches, searchKey)
               /\ UNCHANGED songToVideoMappings
       /\ ongoingSearches' = mapDelete(mapSet(ongoingSearches, searchKey, 0), searchKey)
       /\ UNCHANGED <<searches, calls, scoring>>

InitBulk ==
    /\ songToVideoMappings = <<>>
    /\ failedSearches = <<>>
    /\ ongoingSearches = <<>>
    /\ searches = <<>>
    /\ calls = <<>>
    /\ seekPositions = <<>>
    /\ player = [switches |-> <<>>, n |-> 0, log |-> <<>>]
    /\ driver \in [env : BulkKinds, n : {0}, clears : {0}, bulk : {0}]
    /\ scoring = [ref |-> "", cand |-> "", score |-> Undefined]

\* KMedia is resolved before the bulk and after it
StepByStep == driver.bulk \in {0, NBulk}

\* everything in flight waits for the transport, and the host has a call of
\* resolveMapping for KMedia left
BulkStart ==
    /\ NoneReturned
    /\ driver.n < MaxResolves
    /\ \A s \in DOMAIN searches : searches[s].pc = "transport"

BulkResolve ==
    /\ driver.bulk < NBulk
    /\ driver.bulk = 0 => BulkStart
    /\ LET n == driver.bulk + 1
           resp == BulkResponse(driver.env, n)
       IN ResolveAlone(BulkMedia(n), resp, ItemIdsOf(resp.trackItems),
                       ItemIdsOf(resp.videoItems))
    /\ driver' = [driver EXCEPT !.bulk = @ + 1]
    /\ UNCHANGED <<seekPositions, player>>

NextBulk ==
    \/ /\ StepByStep
       /\ driver.n < MaxResolves
       /\ ResolveMapping(KMedia)
       /\ driver' = [driver EXCEPT !.n = @ + 1]
       /\ UNCHANGED <<seekPositions, player>>
    \/ \E s \in 1..MaxCalls, resp \in Responses :
          StepByStep /\ TransportResponse(s, resp) /\ UNCHANGED host
    \/ \E s \in DOMAIN searches :
          \E et \in {{}, ItemIdsOf(searches[s].trackItems)},
             ev \in {{}, ItemIdsOf(searches[s].videoItems)} :
                StepByStep /\ SelectionDone(s, et, ev) /\ UNCHANGED host
    \/ \E s \in 1..MaxCalls : StepByStep /\ Finally(s) /\ UNCHANGED host
    \/ \E c \in 1..MaxCalls : StepByStep /\ Return(c) /\ UNCHANGED host
    \/ \E c \in 1..MaxCalls : StepByStep /\ Done(c) /\ UNCHANGED host
    \/ /\ StepByStep
       /\ driver.clears < MaxClears
       /\ <<songToVideoMappings, failedSearches, ongoingSearches>> # <<<<>>, <<>>, <<>>>>
       /\ ClearCaches
       /\ driver' = [driver EXCEPT !.clears = @ + 1]
       /\ UNCHANGED <<seekPositions, player>>
    \/ BulkResolve

SpecBulk == InitBulk /\ [][NextBulk]_vars

ElementsOf(seq) == {seq[i] : i \in 1..Len(seq)}

\* the step is a call of clearCaches
ClearStep == driver'.clears = driver.clears + 1

\* the step is a failure whose key brings failedSearches above DefaultMaxSize
\* and leaves the DefaultKeepSize most recently inserted keys
PruneStep ==
    \E key \in ElementsOf(failedSearches') :
        LET added == IF key \in ElementsOf(failedSearches) THEN failedSearches
                     ELSE Append(failedSearches, key)
        IN /\ Len(added) > DefaultMaxSize
           /\ failedSearches' = SubSeq(added, Len(added) - DefaultKeepSize + 1, Len(added))

\* call c runs findSongVideoPair in this step
CallsFindSongVideoPair(c) ==
    /\ c \in DOMAIN calls'
    /\ calls'[c].key # ""
    /\ c \notin DOMAIN calls \/ calls[c].pc = "title"

\* a call of findSongVideoPair for a key of failedSearches returns undefined
\* and issues no search
FailedKeyShortCircuits ==
    \A c \in 1..MaxCalls :
        (CallsFindSongVideoPair(c) /\ calls'[c].key \in ElementsOf(failedSearches))
            => /\ calls'[c].pc = "returned"
               /\ calls'[c].value = Undefined
               /\ calls'[c].awaits = 0
               /\ DOMAIN searches' = DOMAIN searches

(***************************************************************************)
(* C3 (as stated): once a resolution of key K has failed, every later      *)
(* findSongVideoPair for K returns undefined without a search, and K       *)
(* leaves failedSearches by clearCaches only.                              *)
(***************************************************************************)
C3_Original ==
    [][/\ FailedKeyShortCircuits
       /\ ElementsOf(failedSearches) \ ElementsOf(failedSearches') # {} => ClearStep]_vars

(***************************************************************************)
(* C3 (amended): while K is in failedSearches every findSongVideoPair for  *)
(* K returns undefined without a search, and K leaves failedSearches by    *)
(* clearCaches or by a prune only: a later failure that brings the set     *)
(* above 1000 keys, K not being among the 500 most recently inserted.      *)
(***************************************************************************)
C3_NegativePersistence ==
    [][/\ FailedKeyShortCircuits
       /\ ElementsOf(failedSearches) \ ElementsOf(failedSearches') # {}
             => ClearStep \/ PruneStep]_vars

\* after the bulk, a call for K, failed before it, has returned undefined
\* without a search
C3_Witness ==
    /\ driver.bulk = NBulk
    /\ driver.clears = 0
    /\ Len(failedSearches) > DefaultKeepSize
    /\ KKey \in ElementsOf(failedSearches)
    /\ \E c \in DOMAIN calls :
          /\ calls[c].key = KKey
          /\ calls[c].pc = "returned"
          /\ calls[c].awaits = 0
          /\ calls[c].value = Undefined

\* the key of the j-th write of the bulk of mappings: trackId, videoId, ...
InsertedKey(j) == IF j % 2 = 1 THEN BulkTrackId((j + 1) \div 2) ELSE BulkVideoId(j \div 2)

\* the cache holds the most recent writes of the bulk, oldest first
HoldsMostRecent ==
    \A i \in 1..Len(songToVideoMappings) :
        songToVideoMappings[i].key =
            InsertedKey(2 * driver.bulk - Len(songToVideoMappings) + i)

\* mappings of the bulk, and nothing else, were stored into the empty cache,
\* and clearCaches was not called
OnlyBulkMappings == driver.env = "pair" /\ driver.n = 0 /\ driver.clears = 0

(***************************************************************************)
(* C4 (as stated): storing 1001 distinct mappings into the empty cache     *)
(* leaves at most 500 entries, the 500 most recently inserted.             *)
(***************************************************************************)
C4_Original ==
    (OnlyBulkMappings /\ driver.bulk = 1001)
        => (Len(songToVideoMappings) <= 500 /\ HoldsMostRecent)

(***************************************************************************)
(* C4 (amended): storing distinct mappings into the empty cache leaves at  *)
(* most 1000 entries, the most recently inserted ones; the cache is cut to *)
(* its 500 most recent entries only by a store that brings it above 1000,  *)
(* so that after 1001 mappings it holds 998 entries.                       *)
(***************************************************************************)
C4_BoundedGrowth ==
    OnlyBulkMappings
        => /\ Len(songToVideoMappings) <= DefaultMaxSize
           /\ HoldsMostRecent
           /\ driver.bulk <= DefaultKeepSize => Len(songToVideoMappings) = 2 * driver.bulk
           /\ driver.bulk = 1001 => Len(songToVideoMappings) = 998

C4_Witness ==
    OnlyBulkMappings /\ driver.bulk = 1001 /\ Len(songToVideoMappings) = 998

(***************************************************************************)
(* C5: after every completed resolution, whichever way it failed,          *)
(* failedSearches has at most 1000 keys.                                   *)
(***************************************************************************)
C5_NegativeBound == Len(failedSearches) <= DefaultMaxSize

(***************************************************************************)
(* C7: whatever the transport and MediaItem.fromId do, a search that finds *)
(* no mapping fulfils with undefined and its key is in failedSearches when *)
(* it does.                                                                *)
(***************************************************************************)
C7_FailureRecorded ==
    \A s \in DOMAIN searches :
        (searches[s].pc = "settled" /\ searches[s].value = Undefined)
            => searches[s].recorded

(***************************************************************************)
(* SpecNorm: normalizeTitle on its own.  A string x (scoring.ref) is drawn *)
(* with a string y (scoring.cand) that differs from x in letter case, in   *)
(* the length of its whitespace runs or in leading and trailing            *)
(* whitespace; NormalizeTitles records normalizeTitle(x), normalizeTitle(y)*)
(* and normalizeTitle(normalizeTitle(x)).                                  *)
(***************************************************************************)
NormInputs ==
    { "", " ", "Song", "  So   NG ", "Blinding Lights", "a\tb", "\n Hello\r\nWorld \f",
      "MiXeD  cAsE", "x - y (Live)", "  ", "Stay [4K]", "abc DEF  ghi", "Z", "\tTab",
      "End ", "1 2  3" }

\* x with the case of each letter inverted
RECURSIVE swapCase(_)
swapCase(s) ==
    IF s = "" THEN ""
    ELSE LET c == Head(s)
             up == {i \in 1..26 : CharAt(UpperChars, i) = c}
             lo == {i \in 1..26 : CharAt(LowerChars, i) = c}
         IN (IF up # {} THEN CharAt(LowerChars, CHOOSE i \in up : TRUE)
             ELSE IF lo # {} THEN CharAt(UpperChars, CHOOSE i \in lo : TRUE)
             ELSE c) \o swapCase(Tail(s))

\* x with each whitespace character made a longer whitespace run
RECURSIVE widen(_)
widen(s) ==
    IF s = "" THEN ""
    ELSE (IF IsSpace(Head(s)) THEN " \t " ELSE Head(s)) \o widen(Tail(s))

\* x with whitespace put before and after it
pad(s) == "\n " \o s \o " \r"

VariantsOf(x) == {swapCase(x), widen(x), pad(x), pad(widen(swapCase(x)))}

InitNorm ==
    /\ songToVideoMappings = <<>>
    /\ failedSearches = <<>>
    /\ ongoingSearches = <<>>
    /\ searches = <<>>
    /\ calls = <<>>
    /\ seekPositions = <<>>
    /\ player = [switches |-> <<>>, n |-> 0, log |-> <<>>]
    /\ driver = [env |-> "norm", n |-> 0, clears |-> 0, bulk |-> 0]
    /\ \E x \in NormInputs : \E y \in VariantsOf(x) :
          scoring = [ref |-> x, cand |-> y, score |-> Undefined]

NormalizeTitles ==
    /\ scoring.score = Undefined
    /\ scoring' = [scoring EXCEPT
                      !.score = <<normalizeTitle(scoring.ref), normalizeTitle(scoring.cand),
                                  normalizeTitle(normalizeTitle(scoring.ref))>>]
    /\ UNCHANGED <<songToVideoMappings, failedSearches, ongoingSearches, searches,
                   calls, host>>

NextNorm == NormalizeTitles

SpecNorm == InitNorm /\ [][NextNorm]_vars

(***************************************************************************)
(* C11: normalizeTitle(normalizeTitle(x)) = normalizeTitle(x), and two     *)
(* strings that differ only in letter case, in the length of whitespace    *)
(* runs or in leading and trailing whitespace have one normal form.        *)
(***************************************************************************)
C11_NormalizeIdempotent ==
    Scored => /\ scoring.score[3] = scoring.score[1]
              /\ scoring.score[2] = scoring.score[1]

C11_Witness ==
    /\ Scored
    /\ scoring.ref = "  So   NG "
    /\ scoring.cand = pad(widen(swapCase("  So   NG ")))
    /\ scoring.score = <<"so ng", "so ng", "so ng">>

(***************************************************************************)
(* SpecSelect: findBestMatchingId on its own.  A reference title, a list   *)
(* of items and the set of ids for which MediaItem.fromId fulfils are      *)
(* drawn; SelectBest records the id returned and the ids for which         *)
(* MediaItem.fromId was awaited.                                           *)
(***************************************************************************)
SelectRefs == {"Song", " "}

SelectLists ==
    { <<>>,
      <<[id |-> 1, title |-> "Song (Live)"], [id |-> 2, title |-> "Song (Official Video)"]>>,
      <<[id |-> 1, title |-> "Song HD"], [id |-> 2, title |-> "song"],
        [id |-> 3, title |-> "Song - Lyrics"], [id |-> 4, title |-> "SONG [Official Video]"],
        [id |-> 5, title |-> "Song 4k"]>>,
      <<[id |-> 1, title |-> "Song HD"], [id |-> 2, title |-> "Song 4K"],
        [id |-> 3, title |-> "Song UHD"], [id |-> 4, title |-> "Song"]>>,
      <<[id |-> 1, title |-> "Other"], [id |-> 2, title |-> "Song (Live)"]>> }

InitSelect ==
    /\ songToVideoMappings = <<>>
    /\ failedSearches = <<>>
    /\ ongoingSearches = <<>>
    /\ searches = <<>>
    /\ calls = <<>>
    /\ seekPositions = <<>>
    /\ player = [switches |-> <<>>, n |-> 0, log |-> <<>>]
    /\ driver = [env |-> "select", n |-> 0, clears |-> 0, bulk |-> 0]
    /\ \E ref \in SelectRefs, items \in SelectLists :
          \E exists \in SUBSET ItemIdsOf(items) :
             scoring = [ref |-> ref, items |-> items, exists |-> exists,
                        tried |-> <<>>, score |-> Undefined]

SelectBest ==
    /\ scoring.score = Undefined
    /\ scoring' = [scoring EXCEPT
          !.score = <<findBestMatchingId(scoring.items, scoring.ref, scoring.exists)>>,
          !.tried = fromIdCalls(scoring.items, scoring.ref, scoring.exists)]
    /\ UNCHANGED <<songToVideoMappings, failedSearches, ongoingSearches, searches,
                   calls, host>>

NextSelect == SelectBest

SpecSelect == InitSelect /\ [][NextSelect]_vars

\* the score of item i of the drawn list against the drawn reference
DrawnScore(i) == scoreTitleMatch(normalizeTitle(scoring.ref), scoring.items[i].title)

\* the place of item i in descending score order, ties in the order of the list
RankOf(i) ==
    1 + Cardinality({j \in 1..Len(scoring.items) :
                        \/ DrawnScore(j) > DrawnScore(i)
                        \/ DrawnScore(j) = DrawnScore(i) /\ j < i})

\* the id of the item of least rank among the items I, undefined when I is empty
BestOf(I) ==
    IF I = {} THEN UndefinedId
    ELSE scoring.items[CHOOSE i \in I : \A j \in I : RankOf(i) <= RankOf(j)].id

PositiveExisting ==
    {i \in 1..Len(scoring.items) :
        DrawnScore(i) > 0 /\ scoring.items[i].id \in scoring.exists}

(***************************************************************************)
(* C12 (as stated): for a non-empty reference title, findBestMatchingId    *)
(* returns the id of the first candidate, in descending score order with   *)
(* ties in list order, that has score > 0 and exists, and undefined when   *)
(* there is none; for the empty list it awaits no MediaItem.fromId.        *)
(***************************************************************************)
C12_Original ==
    (Scored /\ scoring.ref # "")
        => /\ scoring.score = <<BestOf(PositiveExisting)>>
           /\ scoring.items = <<>> => scoring.tried = <<>>

(***************************************************************************)
(* C12 (amended): for a reference title whose normal form is not empty,    *)
(* findBestMatchingId returns the id of the first candidate, among the     *)
(* three first in descending score order with ties in list order, that has *)
(* score > 0 and exists, and undefined when there is none; for a reference *)
(* title whose normal form is empty it returns the first item of the list  *)
(* that exists; for the empty list it awaits no MediaItem.fromId.          *)
(***************************************************************************)
C12_SelectionOrder ==
    Scored
        => /\ normalizeTitle(scoring.ref) # ""
                => scoring.score =
                      <<BestOf({i \in PositiveExisting : RankOf(i) <= TopCandidates})>>
           /\ normalizeTitle(scoring.ref) = ""
                => scoring.score =
                      <<IF scoring.exists = {} THEN UndefinedId
                        ELSE scoring.items[Min({i \in 1..Len(scoring.items) :
                                 scoring.items[i].id \in scoring.exists})].id>>
           /\ scoring.items = <<>> => scoring.tried = <<>>
           /\ \A k \in 1..Len(scoring.tried) :
                 scoring.tried[k] \in scoring.exists <=> k = Len(scoring.tried) /\ scoring.score = <<scoring.tried[k]>>

\* the best candidate (id 2, "song") and the next (id 4) do not exist: the
\* third in score order is returned after three awaits
C12_Witness ==
    /\ Scored
    /\ scoring.ref = "Song"
    /\ Len(scoring.items) = 5
    /\ scoring.exists = {1, 3, 5}
    /\ scoring.tried = <<2, 4, 1>>
    /\ scoring.score = <<1>>

(***************************************************************************)
(* C13: in every reachable state, after any resolutions, prunes and        *)
(* clears, a key k of songToVideoMappings maps to a mapping p with         *)
(* p.trackId = k or p.videoId = k.                                         *)
(***************************************************************************)
C13_KeyInvariant ==
    \A i \in 1..Len(songToVideoMappings) :
        \/ songToVideoMappings[i].value.trackId = songToVideoMappings[i].key
        \/ songToVideoMappings[i].value.videoId = songToVideoMappings[i].key

\* after the bulk and its prunes, the mapping of KMedia is in the cache with
\* mappings of the bulk
C13_Witness ==
    /\ driver.bulk = NBulk
    /\ driver.env = "pair"
    /\ Len(songToVideoMappings) > DefaultKeepSize
    /\ mapGet(songToVideoMappings, 2) = <<[trackId |-> 1, videoId |-> 2]>>

\* the mapping stored by the latest resolution of the bulk, while the bulk is
\* running and when that resolution stores one; <<>> otherwise.  No other
\* step is taken between two resolutions of the bulk, so in such a state the
\* store (both set calls and pruneCache) has just happened
StoredByBulk ==
    IF 0 < driver.bulk /\ driver.bulk < NBulk
    THEN IF driver.env = "pair"
         THEN <<[trackId |-> BulkTrackId(driver.bulk), videoId |-> BulkVideoId(driver.bulk)]>>
         ELSE IF driver.env = "retrack"
         THEN <<[trackId |-> BulkTrackId(1), videoId |-> BulkVideoId(driver.bulk)]>>
         ELSE <<>>
    ELSE <<>>

(***************************************************************************)
(* C14: right after a mapping p is stored (both set calls and pruneCache), *)
(* whatever the cache held before, the lookups of p.trackId and of         *)
(* p.videoId both return p.  Stated for the stores of the bulk, which      *)
(* start from every cache state the step-by-step phase can leave.          *)
(***************************************************************************)
C14_BidirectionalPut ==
    StoredByBulk # <<>>
        => /\ mapGet(songToVideoMappings, StoredByBulk[1].trackId) = StoredByBulk
           /\ mapGet(songToVideoMappings, StoredByBulk[1].videoId) = StoredByBulk

\* the searches whose performSearch returns in the step
SettledByStep ==
    {s \in DOMAIN searches :
        /\ s \in DOMAIN searches'
        /\ searches[s].pc # "settled"
        /\ searches'[s].pc = "settled"}

(***************************************************************************)
(* C15: a performSearch that completes does exactly one of two things:     *)
(* (i) it returns a mapping with a track id and a video id, the mapping is *)
(* in songToVideoMappings and failedSearches is as before; (ii) it returns *)
(* undefined, its key is in failedSearches and songToVideoMappings is as   *)
(* before.                                                                 *)
(***************************************************************************)
C15_ExclusiveOutcome ==
    [][\A s \in SettledByStep :
          LET v == searches'[s].value
          IN  \/ /\ v # Undefined
                 /\ v[1].trackId # UndefinedId
                 /\ v[1].videoId # UndefinedId
                 /\ \E i \in 1..Len(songToVideoMappings') :
                        songToVideoMappings'[i].value = v[1]
                 /\ failedSearches' = failedSearches
              \/ /\ v = Undefined
                 /\ setHas(failedSearches', searches[s].searchKey)
                 /\ songToVideoMappings' = songToVideoMappings]_vars

\* a search is registered under its key from its start until its .finally
\* callback has run, and the registry holds nothing else
RegisteredWhileUnsettled ==
    /\ \A s \in DOMAIN searches :
          Pending(s) => mapGet(ongoingSearches, searches[s].searchKey) = <<s>>
    /\ \A i \in 1..Len(ongoingSearches) :
          /\ ongoingSearches[i].value \in DOMAIN searches
          /\ ~searches[ongoingSearches[i].value].finalized
          /\ searches[ongoingSearches[i].value].searchKey = ongoingSearches[i].key

\* the searches whose .finally callback runs in the step
FinalizedByStep ==
    {s \in DOMAIN searches :
        /\ s \in DOMAIN searches'
        /\ ~searches[s].finalized
        /\ searches'[s].finalized}

\* the .finally callback of a search leaves the entries of other searches
RemovesOwnEntryOnly ==
    \A s \in FinalizedByStep :
        \A i \in 1..Len(ongoingSearches) :
            ongoingSearches[i].value # s
                => mapGet(ongoingSearches', ongoingSearches[i].key)
                      = <<ongoingSearches[i].value>>

(***************************************************************************)
(* C16: a key is in ongoingSearches exactly while the search registered    *)
(* under it has not settled: the entry is there from the start of the      *)
(* search, it is removed when the search has settled, and the settling of  *)
(* one search does not remove the entry of another, pending search of the  *)
(* same key.                                                               *)
(***************************************************************************)
C16_RegistryConsistency ==
    []RegisteredWhileUnsettled /\ [][RemovesOwnEntryOnly]_vars

(***************************************************************************)
(* SpecSeek: the seek intents.  The host calls switchToMediaItem (from     *)
(* onButtonClick) and plays media items; seekPositions is written by the   *)
(* former and read by the onMediaTransition handler.  player.switches are  *)
(* the calls of switchToMediaItem that wait for MediaItem.fromId;          *)
(* player.log lists the writes of seekPositions and the media transitions  *)
(* with the position of the SEEK each dispatched (Undefined: none).  The   *)
(* media items played have no title, so that the resolveMapping call of    *)
(* the handler returns at once.                                            *)
(***************************************************************************)
SeekMedias ==
    { [id |-> 1, title |-> "", artist |-> "", lazy |-> FALSE, contentType |-> "track"],
      [id |-> 2, title |-> "", artist |-> "", lazy |-> FALSE, contentType |-> "video"],
      [id |-> 2, title |-> "", artist |-> "", lazy |-> FALSE, contentType |-> "other"] }

\* startAt of switchToMediaItem: undefined (seekOnSwitch is off) or seconds
StartAts == {Undefined, <<0>>, <<30>>}

Max(S) == CHOOSE x \in S : \A y \in S : x >= y

\* the handler that leaves the seek position in the map
consumeSeek_keep(positions, id) == positions

\* onMediaTransition, index.ts:194-198: the map after the handler
consumeSeek(positions, id) ==
    IF mapGet(positions, id) # Undefined THEN mapDelete(positions, id) ELSE positions

InitSeek ==
    /\ songToVideoMappings = <<>>
    /\ failedSearches = <<>>
    /\ ongoingSearches = <<>>
    /\ searches = <<>>
    /\ calls = <<>>
    /\ seekPositions = <<>>
    /\ player = [switches |-> <<>>, n |-> 0, log |-> <<>>]
    /\ driver = [env |-> "seek", n |-> 0, clears |-> 0, bulk |-> 0]
    /\ scoring = [ref |-> "", cand |-> "", score |-> Undefined]

\* switchToMediaItem, index.ts:154-156: the call, up to its first await
SwitchToMediaItem(targetId, startAt) ==
    /\ player.n < MaxSwitches
    /\ player' = [player EXCEPT
          !.n = @ + 1,
          !.switches = Append(@, [targetId |-> targetId, startAt |-> startAt])]
    /\ UNCHANGED seekPositions

\* switchToMediaItem, index.ts:156-185: MediaItem.fromId of call i has
\* settled.  Rejected: the catch.  Fulfilled: startAt is stored if it is
\* defined; the rest of the function dispatches queue actions to the host.
FromIdSettled(i, ok) ==
    /\ i \in 1..Len(player.switches)
    /\ LET call == player.switches[i]
           rest == [k \in 1..(Len(player.switches) - 1) |->
                       IF k < i THEN player.switches[k] ELSE player.switches[k + 1]]
       IN IF ok /\ call.startAt # Undefined
          THEN /\ seekPositions' = mapSet(seekPositions, call.targetId, call.startAt[1])
               /\ player' = [player EXCEPT
                     !.switches = rest,
                     !.log = Append(@, [op |-> "set", id |-> call.targetId,
                                        at |-> call.startAt])]
          ELSE /\ player' = [player EXCEPT !.switches = rest]
               /\ UNCHANGED seekPositions

\* the onMediaTransition handler, index.ts:188-200
MediaTransition(media) ==
    /\ Len(SelectSeq(player.log, LAMBDA e : e.op = "transition")) < MaxTransitions
    /\ IF media.contentType \in {"track", "video"}
       THEN ResolveMapping(media)
       ELSE UNCHANGED <<songToVideoMappings, failedSearches, ongoingSearches,
                        searches, calls, scoring>>
    /\ LET pending == mapGet(seekPositions, media.id)
       IN /\ player' = [player EXCEPT
                !.log = Append(@, [op |-> "transition", id |-> media.id, at |-> pending])]
          /\ seekPositions' = consumeSeek(seekPositions, media.id)

NextSeek ==
    \/ \E targetId \in {1, 2}, startAt \in StartAts :
          /\ SwitchToMediaItem(targetId, startAt)
          /\ UNCHANGED <<songToVideoMappings, failedSearches, ongoingSearches,
                         searches, calls, driver, scoring>>
    \/ \E i \in 1..MaxSwitches, ok \in BOOLEAN :
          /\ FromIdSettled(i, ok)
          /\ UNCHANGED <<songToVideoMappings, failedSearches, ongoingSearches,
                         searches, calls, driver, scoring>>
    \/ \E media \in SeekMedias : MediaTransition(media) /\ UNCHANGED driver
    \/ \E c \in 1..MaxCalls : Done(c) /\ UNCHANGED host

SpecSeek == InitSeek /\ [][NextSeek]_vars

\* the position that waits for media id T before event j of the log: the
\* latest one stored since the last transition to T
PendingAt(j, T) ==
    LET log == player.log
        sets == {i \in 1..(j - 1) :
                    /\ log[i].op = "set"
                    /\ log[i].id = T
                    /\ \A k \in (i + 1)..(j - 1) :
                          ~(log[k].op = "transition" /\ log[k].id = T)}
    IN IF sets = {} THEN Undefined ELSE log[Max(sets)].at

(***************************************************************************)
(* C17 as stated: every position switchToMediaItem stores for T is the     *)
(* position of the SEEK dispatched at the first transition to T after it.  *)
(***************************************************************************)
C17_Original ==
    \A i, j \in 1..Len(player.log) :
        (/\ i < j
         /\ player.log[i].op = "set"
         /\ player.log[j].op = "transition"
         /\ player.log[j].id = player.log[i].id
         /\ \A k \in (i + 1)..(j - 1) :
               ~(player.log[k].op = "transition" /\ player.log[k].id = player.log[i].id))
            => player.log[j].at = player.log[i].at

(***************************************************************************)
(* C17, amended: a transition to T dispatches SEEK with the latest         *)
(* position stored for T since the last transition to T, and no SEEK when  *)
(* there is none; seekPositions holds exactly the positions that wait, so  *)
(* a position is deleted by the transition that applies it and is not      *)
(* applied again.  A position stored for T and overwritten by a later      *)
(* switch before the transition is never applied.                          *)
(***************************************************************************)
C17_ConsumedOnce ==
    /\ \A j \in 1..Len(player.log) :
          player.log[j].op = "transition"
              => player.log[j].at = PendingAt(j, player.log[j].id)
    /\ \A T \in {1, 2} :
          mapGet(seekPositions, T) =
              (IF PendingAt(Len(player.log) + 1, T) = Undefined THEN Undefined
               ELSE <<PendingAt(Len(player.log) + 1, T)[1]>>)

\* 0 and then 30 are stored for media id 2; the first transition to 2 seeks
\* to 30, the second dispatches no SEEK
C17_Witness ==
    /\ Len(player.log) = 4
    /\ player.log[1] = [op |-> "set", id |-> 2, at |-> <<0>>]
    /\ player.log[2] = [op |-> "set", id |-> 2, at |-> <<30>>]
    /\ player.log[3] = [op |-> "transition", id |-> 2, at |-> <<30>>]
    /\ player.log[4] = [op |-> "transition", id |-> 2, at |-> Undefined]
    /\ seekPositions = <<>>

(***************************************************************************)
(* C18: once clearCaches has run and no call of resolveMapping follows it, *)
(* songToVideoMappings, failedSearches and ongoingSearches are empty and   *)
(* stay empty, whatever the searches that were in flight do.  Stated for   *)
(* the runs with one call of resolveMapping: clearCaches is called on      *)
(* caches that are not all empty, so that call precedes it.                *)
(***************************************************************************)
C18_TeardownEmpty ==
    (driver.clears >= 1 /\ driver.n = 1)
        => /\ songToVideoMappings = <<>>
           /\ failedSearches = <<>>
           /\ ongoingSearches = <<>>

(***************************************************************************)
(* C19: a mapping p returned by resolveMapping(m) has m.id as its trackId  *)
(* or its videoId, and, when clearCaches has not run (no cache of Spec is  *)
(* ever large enough to be pruned), songToVideoMappings has the key m.id,  *)
(* so that the next resolveMapping(m) is answered from the cache.          *)
(***************************************************************************)
C19_CachedForAsker ==
    \A c \in DOMAIN calls :
        (calls[c].pc = "returned" /\ calls[c].value # Undefined)
            => /\ \/ calls[c].value[1].trackId = calls[c].media.id
                  \/ calls[c].value[1].videoId = calls[c].media.id
               /\ driver.clears = 0 => mapHas(songToVideoMappings, calls[c].media.id)

(***************************************************************************)
(* SpecLive: Spec with the assumption of C20.  Every transport call of a   *)
(* search answers (TransportResponse), the event loop runs the reactions   *)
(* of settled promises (Finally, Return, Done), and every                  *)
(* MediaItem.fromId of a search answers (SelectionDone).  The weak         *)
(* fairness of SelectionDone is written out: AwaitsSelection is the        *)
(* condition under which it is enabled and SelectionAnswered describes its *)
(* steps.  Nothing is assumed of media.title() nor of the host.            *)
(***************************************************************************)
Reactions ==
    \/ \E s \in 1..MaxCalls, resp \in Responses : TransportResponse(s, resp) /\ UNCHANGED host
    \/ \E s \in 1..MaxCalls : Finally(s) /\ UNCHANGED host
    \/ \E c \in 1..MaxCalls : Return(c) /\ UNCHANGED host
    \/ \E c \in 1..MaxCalls : Done(c) /\ UNCHANGED host

\* SelectionDone is enabled
AwaitsSelection ==
    NoneReturned /\ \E s \in DOMAIN searches : searches[s].pc = "selecting"

\* the step is a SelectionDone
SelectionAnswered ==
    \E s \in 1..MaxCalls :
        /\ s \in DOMAIN searches
        /\ searches[s].pc = "selecting"
        /\ s \in DOMAIN searches'
        /\ searches'[s].pc = "settled"

SpecLive ==
    /\ Init
    /\ [][Next]_vars
    /\ WF_vars(Reactions)
    /\ ([]<>~AwaitsSelection \/ []<><<SelectionAnswered>>_vars)

\* the keys findSongVideoPair can be called with
SearchKeys == {searchKeyOf(m.title, m.artist) : m \in Medias}

(***************************************************************************)
(* C20: when every transport call and every existence check answers, a     *)
(* call that awaits the promise of findSongVideoPair eventually gets its   *)
(* value, and a key in ongoingSearches is eventually removed from it,      *)
(* whatever the interleaving of the calls and of clearCaches.              *)
(***************************************************************************)
C20_EventualSettlement ==
    /\ \A c \in 1..MaxCalls :
          (c \in DOMAIN calls /\ calls[c].pc = "await")
              ~> (c \notin DOMAIN calls \/ calls[c].pc # "await")
    /\ \A k \in SearchKeys :
          mapHas(ongoingSearches, k) ~> ~mapHas(ongoingSearches, k)

\* two calls await searches of different keys, both registered
C20_Witness ==
    /\ Len(ongoingSearches) = 2
    /\ \A c \in 1..MaxCalls : c \in DOMAIN calls /\ calls[c].pc = "await" /\ calls[c].fresh
    /\ \A s \in 1..MaxCalls : s \in DOMAIN searches /\ Pending(s)

====
